---- MODULE Spec2Model ----
(***************************************************************************)
(* SAM I2C slave interrupt driver (asf/src/i2c_slave_interrupt.c).        *)
(*                                                                         *)
(* The session (struct i2c_slave_module), the SERCOM I2CS registers the   *)
(* driver touches, the caller's byte buffers and the control API are      *)
(* modelled as a state machine.  Every API call and every run of the      *)
(* interrupt handler is one atomic step; a callback invoked by the        *)
(* handler runs user code, which is a nondeterministic choice among the   *)
(* API calls a callback may make.  Bit masks are modelled as sets of bit  *)
(* names, pointers into the caller's memory as addresses 0..MemSize.      *)
(***************************************************************************)
EXTENDS Integers, Sequences, FiniteSets, TLC

\* ------------------------------------------------------------------ bounds
\* largest packet.data_length a caller submits
MaxLen == 2
\* number of callback kinds the application sets up (registers or enables)
MaxKinds == 1

\* --------------------------------------------------------------- constants
NULL == "NULL"
Handlers == {"H1"}
Byte == 0..1
\* the caller's memory: room for the largest packet at either base address
Bases == 0..1
MemSize == MaxLen + 1
Addr == 0..(MemSize - 1)

\* enum i2c_slave_callback
Kinds == {"WRITE_REQUEST", "READ_REQUEST", "WRITE_COMPLETE",
          "READ_COMPLETE", "ERROR", "ERROR_LAST_TRANSFER"}

\* SERCOM_I2CS_INTFLAG_* bits
AMATCH == "AMATCH"
PREC == "PREC"
DRDY == "DRDY"
IntBits == {AMATCH, PREC, DRDY}

\* SERCOM_I2CS_STATUS_* bits read by the handler
ErrBits == {"BUSERR", "COLL", "LOWTOUT"}
\* what STATUS reads at an address match: at most one error bit, and DIR
AddressStatus == {e \cup d : e \in {{}} \cup {{b} : b \in ErrBits},
                            d \in {{}, {"DIR"}}}
\* what STATUS reads at a data-ready condition: RXNACK or not
DataStatus == {{}, {"RXNACK"}}

\* the packets a caller submits: a valid buffer inside the caller's memory
Packets == {p \in [data : Bases, data_length : 0..MaxLen] :
              p.data + p.data_length <= MemSize}

VARIABLES module, hw, mem, fault, last, env

vars == <<module, hw, mem, fault, last, env>>

\* the machine state the operators below transform: the session m, the
\* interrupt registers hw, the value sr that STATUS reads, the DATA register
\* data, the caller's memory; log collects what the running operation did
\* (callbacks invoked, register writes)
State(m, h, sr, data, mm, f, e) ==
  [m |-> m, hw |-> h, sr |-> sr, data |-> data, mem |-> mm, fault |-> f,
   env |-> e, log |-> <<>>]

Cur == State(module, hw, {}, 0, mem, fault, env)

\* a log entry for a callback: kind k was invoked through slot value fn in
\* state s, its user code did u and returned in state r
Call(s, k, fn, u, r) ==
  [t |-> "CALL", k |-> k, fn |-> fn, u |-> u,
   m |-> s.m, hw |-> s.hw, m2 |-> r.m, hw2 |-> r.hw]

\* a log entry for a register write: t is "ACKACT" (k is "ACK" or "NACK"),
\* "CMD" (k is the command) or "DATA" (k is the byte)
Note(s, t, k) == [s EXCEPT !.log = Append(@, [t |-> t, k |-> k])]

\* the kinds the application has set up so far
InUse(s) == s.m.registered_callback \cup s.m.enabled_callback

\* the kinds the application may set up next
MayUse(s) ==
  IF Cardinality(InUse(s)) < s.env.nkinds THEN s.env.kinds ELSE InUse(s)

\* ------------------------------------------------------------ control API
i2c_slave_enable_nack_on_address(s) ==
  [s EXCEPT !.m.nack_on_address = TRUE]

i2c_slave_disable_nack_on_address(s) ==
  [s EXCEPT !.m.nack_on_address = FALSE]

\* (variant: registering a callback also enables it)
i2c_slave_register_callback_enable(s, callback, callback_type) ==
  [s EXCEPT !.m.callbacks[callback_type] = callback,
            !.m.registered_callback = @ \cup {callback_type},
            !.m.enabled_callback = @ \cup {callback_type}]

i2c_slave_register_callback(s, callback, callback_type) ==
  [s EXCEPT !.m.callbacks[callback_type] = callback,
            !.m.registered_callback = @ \cup {callback_type}]

\* (variant: the registered bit is toggled instead of cleared)
i2c_slave_unregister_callback_toggle(s, callback_type) ==
  [s EXCEPT !.m.callbacks[callback_type] = NULL,
            !.m.registered_callback =
               IF callback_type \in @ THEN @ \ {callback_type}
               ELSE @ \cup {callback_type}]

i2c_slave_unregister_callback(s, callback_type) ==
  [s EXCEPT !.m.callbacks[callback_type] = NULL,
            !.m.registered_callback = @ \ {callback_type}]

i2c_slave_enable_callback(s, callback_type) ==
  [s EXCEPT !.m.enabled_callback = @ \cup {callback_type},
            !.hw.INTENSET =
               IF callback_type \in {"READ_REQUEST", "WRITE_REQUEST"}
               THEN @ \cup {AMATCH} ELSE @]

i2c_slave_disable_callback(s, callback_type) ==
  LET en == s.m.enabled_callback \ {callback_type} IN
  [s EXCEPT !.m.enabled_callback = en,
            !.hw.INTENSET =
               IF en \cap {"READ_REQUEST", "WRITE_REQUEST"} = {}
               THEN @ \ {AMATCH} ELSE @]

\* the two job functions return the pair <<status code, state>>
\* (variant: the busy check lets a job with one byte left be replaced)
i2c_slave_read_packet_job_busy1(s, packet) ==
  IF s.m.buffer_remaining > 1
  THEN <<"STATUS_BUSY", s>>
  ELSE <<"STATUS_OK",
         [s EXCEPT !.m.buffer = packet.data,
                   !.m.buffer_remaining = packet.data_length,
                   !.m.buffer_length = packet.data_length,
                   !.m.status = "STATUS_BUSY",
                   !.hw.INTENSET = @ \cup {AMATCH, DRDY, PREC}]>>

i2c_slave_read_packet_job(s, packet) ==
  IF s.m.buffer_remaining > 0
  THEN <<"STATUS_BUSY", s>>
  ELSE <<"STATUS_OK",
         [s EXCEPT !.m.buffer = packet.data,
                   !.m.buffer_remaining = packet.data_length,
                   !.m.buffer_length = packet.data_length,
                   !.m.status = "STATUS_BUSY",
                   !.hw.INTENSET = @ \cup {AMATCH, DRDY, PREC}]>>

\* (variant: the cursor is left where the previous job stopped)
i2c_slave_write_packet_job_nocursor(s, packet) ==
  IF s.m.buffer_remaining > 0
  THEN <<"STATUS_BUSY", s>>
  ELSE <<"STATUS_OK",
         [s EXCEPT !.m.buffer_remaining = packet.data_length,
                   !.m.buffer_length = packet.data_length,
                   !.m.status = "STATUS_BUSY",
                   !.hw.INTENSET = @ \cup {AMATCH, DRDY, PREC}]>>

i2c_slave_write_packet_job(s, packet) ==
  IF s.m.buffer_remaining > 0
  THEN <<"STATUS_BUSY", s>>
  ELSE <<"STATUS_OK",
         [s EXCEPT !.m.buffer = packet.data,
                   !.m.buffer_remaining = packet.data_length,
                   !.m.buffer_length = packet.data_length,
                   !.m.status = "STATUS_BUSY",
                   !.hw.INTENSET = @ \cup {AMATCH, DRDY, PREC}]>>

\* ---------------------------------------------------------------- callbacks
\* what the user code of a callback may do: nothing, submit a job, change
\* the callback table, or switch the NACK policy
UserOps(s) ==
  {[op |-> "none"]}
  \cup {[op |-> o, packet |-> p] :
          o \in {"read_job", "write_job"}, p \in s.env.packets}
  \cup {[op |-> o] : o \in {"nack_on", "nack_off"}}
  \cup {[op |-> "unregister", kind |-> k] : k \in InUse(s)}
  \cup {[op |-> "register", kind |-> k, fn |-> h] :
          k \in MayUse(s), h \in Handlers}

\* the state after the user code u has run, and what it is logged as
UserRun(s, u) ==
  CASE u.op = "none" -> <<"none", s>>
    [] u.op = "read_job" ->
         LET r == i2c_slave_read_packet_job(s, u.packet) IN
         <<IF r[1] = "STATUS_OK" THEN "job_ok" ELSE "job_busy", r[2]>>
    [] u.op = "write_job" ->
         LET r == i2c_slave_write_packet_job(s, u.packet) IN
         <<IF r[1] = "STATUS_OK" THEN "job_ok" ELSE "job_busy", r[2]>>
    [] u.op = "nack_on" -> <<"nack_on", i2c_slave_enable_nack_on_address(s)>>
    [] u.op = "nack_off" -> <<"nack_off", i2c_slave_disable_nack_on_address(s)>>
    [] u.op = "unregister" ->
         <<"unregister", i2c_slave_unregister_callback(s, u.kind)>>
    [] u.op = "register" ->
         <<"register", i2c_slave_register_callback(s, u.fn, u.kind)>>

\* module->callbacks[kind](module): a call through an empty slot faults
Invoke(s, kind) ==
  LET fn == s.m.callbacks[kind] IN
  IF fn = NULL
  THEN {[s EXCEPT !.fault = TRUE,
                  !.log = Append(@, Call(s, kind, NULL, "fault", s))]}
  ELSE {LET r == UserRun(s, u) IN
        [r[2] EXCEPT !.log = Append(@, Call(s, kind, fn, r[1], r[2]))] :
          u \in UserOps(s)}

\* if (callback_mask & (1 << kind)) module->callbacks[kind](module);
Dispatch(s, callback_mask, kind) ==
  IF kind \in callback_mask THEN Invoke(s, kind) ELSE {s}

\* sequencing: F runs on every outcome of S in which the handler still runs
Then(S, F(_)) == UNION {IF s.fault THEN {s} ELSE F(s) : s \in S}

\* ---------------------------------------------------------- register writes
_i2c_slave_set_ctrlb_ackact(s, send_ack) ==
  LET v == IF send_ack THEN "ACK" ELSE "NACK" IN
  Note(s, "ACKACT", v)

\* command 0x3 answers the address with ACKACT and clears AMATCH
_i2c_slave_set_ctrlb_cmd3(s) ==
  Note([s EXCEPT !.hw.INTFLAG = @ \ {AMATCH}], "CMD", "CMD3")

\* i2c_hw->CTRLB.reg |= SERCOM_I2CS_CTRLB_CMD(0x2): answers the byte with
\* ACKACT, waits for a new start condition and clears DRDY
CtrlbCmd2(s) ==
  Note([s EXCEPT !.hw.INTFLAG = @ \ {DRDY}], "CMD", "CMD2")

\* ------------------------------------------------------------ byte transfer
\* (variant: the byte is stored but the cursor is not advanced)
_i2c_slave_read_nostep(s) ==
  [s EXCEPT !.mem = IF s.m.buffer \in Addr
                    THEN [@ EXCEPT ![s.m.buffer] = s.data] ELSE @,
            !.m.buffer_remaining = @ - 1,
            !.hw.INTFLAG = @ \ {DRDY}]

_i2c_slave_read(s) ==
  [s EXCEPT !.mem = IF s.m.buffer \in Addr
                    THEN [@ EXCEPT ![s.m.buffer] = s.data] ELSE @,
            !.m.buffer = @ + 1,
            !.m.buffer_remaining = @ - 1,
            !.hw.INTFLAG = @ \ {DRDY}]

_i2c_slave_write(s) ==
  LET v == IF s.m.buffer \in Addr THEN s.mem[s.m.buffer] ELSE s.data IN
  Note([s EXCEPT !.data = v,
                 !.m.buffer = @ + 1,
                 !.m.buffer_remaining = @ - 1,
                 !.hw.INTFLAG = @ \ {DRDY}], "DATA", v)

\* -------------------------------------------------------- interrupt handler
\* (variant: the completion callbacks of the two directions are swapped)
RepeatedStart_swapped(s, callback_mask) ==
  IF s.m.buffer_length # s.m.buffer_remaining
     /\ s.m.transfer_direction = "I2C_TRANSFER_WRITE"
  THEN Dispatch([s EXCEPT !.m.status = "STATUS_OK",
                          !.m.buffer_length = 0,
                          !.m.buffer_remaining = 0],
                callback_mask, "WRITE_COMPLETE")
  ELSE IF s.m.buffer_length # s.m.buffer_remaining
          /\ s.m.transfer_direction = "I2C_TRANSFER_READ"
  THEN Dispatch([s EXCEPT !.m.status = "STATUS_OK",
                          !.m.buffer_length = 0,
                          !.m.buffer_remaining = 0],
                callback_mask, "READ_COMPLETE")
  ELSE {s}

\* address match, step 1: a job of the previous address phase that was
\* partly transferred is completed (repeated start)
RepeatedStart(s, callback_mask) ==
  IF s.m.buffer_length # s.m.buffer_remaining
     /\ s.m.transfer_direction = "I2C_TRANSFER_WRITE"
  THEN Dispatch([s EXCEPT !.m.status = "STATUS_OK",
                          !.m.buffer_length = 0,
                          !.m.buffer_remaining = 0],
                callback_mask, "READ_COMPLETE")
  ELSE IF s.m.buffer_length # s.m.buffer_remaining
          /\ s.m.transfer_direction = "I2C_TRANSFER_READ"
  THEN Dispatch([s EXCEPT !.m.status = "STATUS_OK",
                          !.m.buffer_length = 0,
                          !.m.buffer_remaining = 0],
                callback_mask, "WRITE_COMPLETE")
  ELSE {s}

\* (variant: the callback runs before the status is set)
LastTransferError_late(s, callback_mask) ==
  IF s.sr \cap {"BUSERR", "COLL", "LOWTOUT"} # {}
  THEN {[t EXCEPT !.m.status = "STATUS_ERR_IO"] :
          t \in Dispatch(s, callback_mask, "ERROR_LAST_TRANSFER")}
  ELSE {s}

\* address match, step 2: an error of the last packet transfer
LastTransferError(s, callback_mask) ==
  IF s.sr \cap {"BUSERR", "COLL", "LOWTOUT"} # {}
  THEN Dispatch([s EXCEPT !.m.status = "STATUS_ERR_IO"],
                callback_mask, "ERROR_LAST_TRANSFER")
  ELSE {s}

\* (variant: the address is ACKed whenever a callback was not asked to NACK)
AckIfBuffer_always(s) ==
  {_i2c_slave_set_ctrlb_ackact(s, TRUE)}

\* ACK the address if a buffer is set up, NACK it otherwise
AckIfBuffer(s) ==
  IF s.m.buffer_length = 0
  THEN {_i2c_slave_set_ctrlb_ackact(s, FALSE)}
  ELSE {_i2c_slave_set_ctrlb_ackact(s, TRUE)}

\* (variant: the direction is recorded before the address is NACKed)
AddressDecision_nackdir(s, callback_mask) ==
  IF s.m.nack_on_address
  THEN {_i2c_slave_set_ctrlb_ackact(
          [s EXCEPT !.m.transfer_direction =
                       IF "DIR" \in s.sr THEN "I2C_TRANSFER_READ"
                       ELSE "I2C_TRANSFER_WRITE"], FALSE)}
  ELSE IF "DIR" \in s.sr
  THEN Then(Dispatch([s EXCEPT !.m.transfer_direction = "I2C_TRANSFER_READ"],
                     callback_mask, "READ_REQUEST"),
            AckIfBuffer)
  ELSE Then(Dispatch([s EXCEPT !.m.transfer_direction = "I2C_TRANSFER_WRITE"],
                     callback_mask, "WRITE_REQUEST"),
            AckIfBuffer)

\* address match, step 3: direction, request callback, ACK or NACK
AddressDecision(s, callback_mask) ==
  IF s.m.nack_on_address
  THEN {_i2c_slave_set_ctrlb_ackact(s, FALSE)}
  ELSE IF "DIR" \in s.sr
  THEN Then(Dispatch([s EXCEPT !.m.transfer_direction = "I2C_TRANSFER_READ"],
                     callback_mask, "READ_REQUEST"),
            AckIfBuffer)
  ELSE Then(Dispatch([s EXCEPT !.m.transfer_direction = "I2C_TRANSFER_WRITE"],
                     callback_mask, "WRITE_REQUEST"),
            AckIfBuffer)

\* address match, step 4: commit the decision, ACK the next incoming packet
AddressCommit(s) ==
  {_i2c_slave_set_ctrlb_ackact(_i2c_slave_set_ctrlb_cmd3(s), TRUE)}

AddressMatch(s, callback_mask) ==
  LET Step2(t) == LastTransferError(t, callback_mask)
      Step3(t) == AddressDecision(t, callback_mask)
  IN Then(Then(Then(RepeatedStart(s, callback_mask), Step2), Step3),
          AddressCommit)

\* (variant: the address-match source is never disabled)
StopCondition_keepamatch(s, callback_mask) ==
  LET s2 == [s EXCEPT !.hw.INTFLAG = @ \ {PREC},
                      !.hw.INTENSET = @ \ {PREC, DRDY}]
  IN IF ~ (s2.m.status = "STATUS_ERR_OVERFLOW" \/ s2.m.status = "STATUS_ERR_IO")
     THEN LET s3 == [s2 EXCEPT !.m.status = "STATUS_OK",
                               !.m.buffer_length = 0,
                               !.m.buffer_remaining = 0]
          IN IF "READ_COMPLETE" \in callback_mask
                /\ s3.m.transfer_direction = "I2C_TRANSFER_WRITE"
             THEN Invoke(s3, "READ_COMPLETE")
             ELSE IF "WRITE_COMPLETE" \in callback_mask
                     /\ s3.m.transfer_direction = "I2C_TRANSFER_READ"
             THEN Invoke(s3, "WRITE_COMPLETE")
             ELSE {s3}
     ELSE {s2}

\* (variant: READ_COMPLETE is invoked whatever the direction)
StopCondition_anydir(s, callback_mask) ==
  LET s1 == [s EXCEPT !.hw.INTFLAG = @ \ {PREC},
                      !.hw.INTENSET = @ \ {PREC, DRDY}]
      s2 == IF ~ ("READ_REQUEST" \in s1.m.enabled_callback
                  \/ "WRITE_REQUEST" \in s1.m.enabled_callback)
            THEN [s1 EXCEPT !.hw.INTENSET = @ \ {AMATCH}]
            ELSE s1
  IN IF ~ (s2.m.status = "STATUS_ERR_OVERFLOW" \/ s2.m.status = "STATUS_ERR_IO")
     THEN LET s3 == [s2 EXCEPT !.m.status = "STATUS_OK",
                               !.m.buffer_length = 0,
                               !.m.buffer_remaining = 0]
          IN IF "READ_COMPLETE" \in callback_mask
             THEN Invoke(s3, "READ_COMPLETE")
             ELSE IF "WRITE_COMPLETE" \in callback_mask
                     /\ s3.m.transfer_direction = "I2C_TRANSFER_READ"
             THEN Invoke(s3, "WRITE_COMPLETE")
             ELSE {s3}
     ELSE {s2}

\* (variant: the stop condition resets the session whatever the status)
StopCondition_always(s, callback_mask) ==
  LET s1 == [s EXCEPT !.hw.INTFLAG = @ \ {PREC},
                      !.hw.INTENSET = @ \ {PREC, DRDY}]
      s2 == IF ~ ("READ_REQUEST" \in s1.m.enabled_callback
                  \/ "WRITE_REQUEST" \in s1.m.enabled_callback)
            THEN [s1 EXCEPT !.hw.INTENSET = @ \ {AMATCH}]
            ELSE s1
      s3 == [s2 EXCEPT !.m.status = "STATUS_OK",
                       !.m.buffer_length = 0,
                       !.m.buffer_remaining = 0]
  IN IF "READ_COMPLETE" \in callback_mask
        /\ s3.m.transfer_direction = "I2C_TRANSFER_WRITE"
     THEN Invoke(s3, "READ_COMPLETE")
     ELSE IF "WRITE_COMPLETE" \in callback_mask
             /\ s3.m.transfer_direction = "I2C_TRANSFER_READ"
     THEN Invoke(s3, "WRITE_COMPLETE")
     ELSE {s3}

\* stop condition on the bus
StopCondition(s, callback_mask) ==
  LET s1 == [s EXCEPT !.hw.INTFLAG = @ \ {PREC},
                      !.hw.INTENSET = @ \ {PREC, DRDY}]
      s2 == IF ~ ("READ_REQUEST" \in s1.m.enabled_callback
                  \/ "WRITE_REQUEST" \in s1.m.enabled_callback)
            THEN [s1 EXCEPT !.hw.INTENSET = @ \ {AMATCH}]
            ELSE s1
  IN IF ~ (s2.m.status = "STATUS_ERR_OVERFLOW" \/ s2.m.status = "STATUS_ERR_IO")
     THEN LET s3 == [s2 EXCEPT !.m.status = "STATUS_OK",
                               !.m.buffer_length = 0,
                               !.m.buffer_remaining = 0]
          IN IF "READ_COMPLETE" \in callback_mask
                /\ s3.m.transfer_direction = "I2C_TRANSFER_WRITE"
             THEN Invoke(s3, "READ_COMPLETE")
             ELSE IF "WRITE_COMPLETE" \in callback_mask
                     /\ s3.m.transfer_direction = "I2C_TRANSFER_READ"
             THEN Invoke(s3, "WRITE_COMPLETE")
             ELSE {s3}
     ELSE {s2}

\* (variant: on overflow the incoming byte is stored at the cursor)
EarlyTermination_store(s, callback_mask) ==
  LET s1 == [s EXCEPT !.m.buffer_remaining = 0, !.m.buffer_length = 0,
                      !.mem = IF s.m.transfer_direction = "I2C_TRANSFER_WRITE"
                                 /\ s.m.buffer \in Addr
                              THEN [@ EXCEPT ![s.m.buffer] = s.data] ELSE @]
  IN
  IF s1.m.transfer_direction = "I2C_TRANSFER_WRITE"
  THEN Dispatch([CtrlbCmd2(_i2c_slave_set_ctrlb_ackact(s1, FALSE))
                   EXCEPT !.m.status = "STATUS_ERR_OVERFLOW"],
                callback_mask, "ERROR")
  ELSE {[CtrlbCmd2(_i2c_slave_set_ctrlb_ackact(s1, FALSE))
           EXCEPT !.m.status = "STATUS_OK",
                  !.hw.INTENSET = @ \ {DRDY}]}

\* (variant: only the total is zeroed, the remaining count is kept)
EarlyTermination_keeprem(s, callback_mask) ==
  LET s1 == [s EXCEPT !.m.buffer_length = 0] IN
  IF s1.m.transfer_direction = "I2C_TRANSFER_WRITE"
  THEN Dispatch([CtrlbCmd2(_i2c_slave_set_ctrlb_ackact(s1, FALSE))
                   EXCEPT !.m.status = "STATUS_ERR_OVERFLOW"],
                callback_mask, "ERROR")
  ELSE {[CtrlbCmd2(_i2c_slave_set_ctrlb_ackact(s1, FALSE))
           EXCEPT !.m.status = "STATUS_OK",
                  !.hw.INTENSET = @ \ {DRDY}]}

\* data ready: the buffer is full or the master sent NACK
EarlyTermination(s, callback_mask) ==
  LET s1 == [s EXCEPT !.m.buffer_remaining = 0, !.m.buffer_length = 0] IN
  IF s1.m.transfer_direction = "I2C_TRANSFER_WRITE"
  THEN Dispatch([CtrlbCmd2(_i2c_slave_set_ctrlb_ackact(s1, FALSE))
                   EXCEPT !.m.status = "STATUS_ERR_OVERFLOW"],
                callback_mask, "ERROR")
  ELSE {[CtrlbCmd2(_i2c_slave_set_ctrlb_ackact(s1, FALSE))
           EXCEPT !.m.status = "STATUS_OK",
                  !.hw.INTENSET = @ \ {DRDY}]}

\* (variant: the master's NACK is not looked at)
DataReady_nonack(s, callback_mask) ==
  IF s.m.buffer_remaining <= 0
  THEN EarlyTermination(s, callback_mask)
  ELSE IF s.m.buffer_length > 0 /\ s.m.buffer_remaining > 0
  THEN IF s.m.transfer_direction = "I2C_TRANSFER_WRITE"
       THEN {_i2c_slave_read(s)}
       ELSE {_i2c_slave_write(s)}
  ELSE {s}

\* (variant: a byte the master NACKed while writing is ignored)
DataReady_skip(s, callback_mask) ==
  IF s.m.buffer_remaining <= 0
     \/ (s.m.transfer_direction = "I2C_TRANSFER_READ"
         /\ s.m.buffer_length > s.m.buffer_remaining
         /\ "RXNACK" \in s.sr)
  THEN EarlyTermination(s, callback_mask)
  ELSE IF s.m.buffer_length > 0 /\ s.m.buffer_remaining > 0
          /\ ~ (s.m.transfer_direction = "I2C_TRANSFER_WRITE"
                /\ "RXNACK" \in s.sr)
  THEN IF s.m.transfer_direction = "I2C_TRANSFER_WRITE"
       THEN {_i2c_slave_read(s)}
       ELSE {_i2c_slave_write(s)}
  ELSE {s}

DataReady(s, callback_mask) ==
  IF s.m.buffer_remaining <= 0
     \/ (s.m.transfer_direction = "I2C_TRANSFER_READ"
         /\ s.m.buffer_length > s.m.buffer_remaining
         /\ "RXNACK" \in s.sr)
  THEN EarlyTermination(s, callback_mask)
  ELSE IF s.m.buffer_length > 0 /\ s.m.buffer_remaining > 0
  THEN IF s.m.transfer_direction = "I2C_TRANSFER_WRITE"
       THEN {_i2c_slave_read(s)}
       ELSE {_i2c_slave_write(s)}
  ELSE {s}

\* (variant: the stop condition is tested before the address match)
_i2c_slave_interrupt_handler_stopfirst(s) ==
  LET callback_mask == s.m.enabled_callback \cap s.m.registered_callback IN
  IF PREC \in s.hw.INTFLAG THEN StopCondition(s, callback_mask)
  ELSE IF AMATCH \in s.hw.INTFLAG THEN AddressMatch(s, callback_mask)
  ELSE IF DRDY \in s.hw.INTFLAG THEN DataReady(s, callback_mask)
  ELSE {s}

_i2c_slave_interrupt_handler(s) ==
  LET callback_mask == s.m.enabled_callback \cap s.m.registered_callback IN
  IF AMATCH \in s.hw.INTFLAG THEN AddressMatch(s, callback_mask)
  ELSE IF PREC \in s.hw.INTFLAG THEN StopCondition(s, callback_mask)
  ELSE IF DRDY \in s.hw.INTFLAG THEN DataReady(s, callback_mask)
  ELSE {s}

\* ------------------------------------------------------------------ system
\* the application and the bus master the driver runs with: the callback
\* kinds the application sets up and how many of them, the packets it
\* submits, and the bytes the master sends
EnvSession ==
  [kinds |-> {"WRITE_REQUEST", "READ_REQUEST", "WRITE_COMPLETE",
              "READ_COMPLETE"},
   nkinds |-> MaxKinds,
   packets |-> {p \in Packets : p.data = 0}, bytes |-> {0}]

EnvBytes ==
  [kinds |-> {"ERROR"}, nkinds |-> MaxKinds, packets |-> Packets,
   bytes |-> Byte]

\* an application that sets up two callbacks of a write transaction and
\* submits full-size packets
EnvCallbacks ==
  [kinds |-> {"READ_COMPLETE", "ERROR_LAST_TRANSFER", "WRITE_REQUEST"},
   nkinds |-> 2,
   packets |-> {p \in Packets : p.data = 0 /\ p.data_length = MaxLen},
   bytes |-> {0}]

\* the session after i2c_slave_init, before any callback is set up
InitSession ==
  /\ module \in [buffer : {0},
                  buffer_remaining : {0},
                  buffer_length : {0},
                  status : {"STATUS_OK"},
                  transfer_direction : {"I2C_TRANSFER_WRITE"},
                  nack_on_address : BOOLEAN,
                  registered_callback : {{}},
                  enabled_callback : {{}},
                  callbacks : {[k \in Kinds |-> NULL]}]
  /\ hw = [INTFLAG |-> {}, INTENSET |-> {}]
  /\ mem = [a \in Addr |-> 0]
  /\ fault = FALSE
  /\ last = [op |-> "init", ret |-> "none", arg |-> "none", log |-> <<>>]

Init == InitSession /\ env = EnvSession

InitBytes == InitSession /\ env = EnvBytes

InitCallbacks == InitSession /\ env = EnvCallbacks

\* the step to state s, reported as operation op with result ret; op is
\* "read_packet_job", "write_packet_job", "interrupt", or "api" for the
\* calls that set up callbacks and the NACK policy
Commit(s, op, ret, arg) ==
  /\ module' = s.m
  /\ hw' = s.hw
  /\ mem' = s.mem
  /\ fault' = s.fault
  /\ last' = [op |-> op, ret |-> ret, arg |-> arg, log |-> s.log]
  /\ env' = env

\* an enabled interrupt is pending: the handler runs before anything else
IrqPending == hw.INTFLAG \cap hw.INTENSET # {}

\* code outside the interrupt handler runs
MainRuns == ~ fault /\ ~ IrqPending

\* a job call reports the packet it made current
ReadPacketJob ==
  /\ MainRuns
  /\ \E p \in env.packets :
       LET r == i2c_slave_read_packet_job(Cur, p) IN
       Commit(r[2], "read_packet_job", r[1],
              IF r[1] = "STATUS_OK" THEN p ELSE "none")

WritePacketJob ==
  /\ MainRuns
  /\ \E p \in env.packets :
       LET r == i2c_slave_write_packet_job(Cur, p) IN
       Commit(r[2], "write_packet_job", r[1],
              IF r[1] = "STATUS_OK" THEN p ELSE "none")

RegisterCallback ==
  /\ MainRuns
  /\ \E k \in MayUse(Cur), h \in Handlers :
       Commit(i2c_slave_register_callback(Cur, h, k),
              "api", "none", "none")

UnregisterCallback ==
  /\ MainRuns
  /\ \E k \in Kinds :
       Commit(i2c_slave_unregister_callback(Cur, k),
              "api", "none", "none")

EnableCallback ==
  /\ MainRuns
  /\ \E k \in MayUse(Cur) :
       Commit(i2c_slave_enable_callback(Cur, k),
              "api", "none", "none")

DisableCallback ==
  /\ MainRuns
  /\ \E k \in Kinds :
       Commit(i2c_slave_disable_callback(Cur, k),
              "api", "none", "none")

EnableNackOnAddress ==
  /\ MainRuns
  /\ Commit(i2c_slave_enable_nack_on_address(Cur),
            "api", "none", "none")

DisableNackOnAddress ==
  /\ MainRuns
  /\ Commit(i2c_slave_disable_nack_on_address(Cur),
            "api", "none", "none")

\* the handler runs with the conditions in flags pending, STATUS reading sr
RunHandler(flags, sr, data) ==
  LET entry == [Cur EXCEPT !.hw.INTFLAG = @ \cup flags,
                           !.data = data,
                           !.sr = sr]
  IN /\ ~ fault
     /\ entry.hw.INTFLAG \cap entry.hw.INTENSET # {}
     /\ \E s \in _i2c_slave_interrupt_handler(entry) :
          Commit(s, "interrupt", "none",
                 [flags |-> entry.hw.INTFLAG, sr |-> sr, data |-> data])

\* the master addresses the slave
AddressMatchEvent ==
  \E sr \in AddressStatus : RunHandler({AMATCH}, sr, 0)

\* the master ends the transaction
StopEvent == RunHandler({PREC}, {}, 0)

\* a byte has arrived in DATA, or the next byte is wanted in DATA
DataReadyEvent ==
  \E sr \in DataStatus, data \in env.bytes : RunHandler({DRDY}, sr, data)

Next ==
  \/ ReadPacketJob
  \/ WritePacketJob
  \/ RegisterCallback
  \/ UnregisterCallback
  \/ EnableCallback
  \/ DisableCallback
  \/ EnableNackOnAddress
  \/ DisableNackOnAddress
  \/ AddressMatchEvent
  \/ StopEvent
  \/ DataReadyEvent

Spec == Init /\ [][Next]_vars

SpecBytes == InitBytes /\ [][Next]_vars

SpecCallbacks == InitCallbacks /\ [][Next]_vars

\* ------------------------------------------- the handler's choice of branch
\* the handler entered with any combination of the three conditions set in
\* INTFLAG, enabled or not, and with none of them (the SERCOM interrupt also
\* has sources the driver does not use); conditions the handler does not
\* process stay set in INTFLAG
EnvPriority ==
  [kinds |-> {"READ_COMPLETE", "WRITE_REQUEST"}, nkinds |-> 1,
   packets |-> {p \in Packets : p.data = 0 /\ p.data_length = MaxLen},
   bytes |-> {0}]

InitPriority == InitSession /\ env = EnvPriority

PriorityStatus == {{}, {"DIR"}, {"BUSERR"}, {"RXNACK"}}

HandlerCall ==
  \E flags \in SUBSET IntBits, sr \in PriorityStatus, data \in env.bytes :
    LET entry == [Cur EXCEPT !.hw.INTFLAG = @ \cup flags,
                             !.data = data,
                             !.sr = sr]
    IN /\ ~ fault
       /\ \E s \in _i2c_slave_interrupt_handler(entry) :
            Commit(s, "interrupt", "none",
                   [flags |-> entry.hw.INTFLAG, sr |-> sr, data |-> data])

NextPriority ==
  \/ ReadPacketJob
  \/ WritePacketJob
  \/ RegisterCallback
  \/ EnableCallback
  \/ HandlerCall

SpecPriority == InitPriority /\ [][NextPriority]_vars

\* ------------------------------------------------- the callback table API
\* register_callback and unregister_callback applied, in any order and with
\* any arguments, to sessions with and without a job and with any callbacks
\* enabled; each call reports its arguments
TableKinds == {"WRITE_REQUEST", "READ_COMPLETE", "ERROR"}
TableHandlers == {"H1", "H2"}

EnvTable ==
  [kinds |-> TableKinds, nkinds |-> Cardinality(TableKinds),
   packets |-> {p \in Packets : p.data = 0}, bytes |-> {0}]

InitTable ==
  /\ \E p \in EnvTable.packets, en \in SUBSET TableKinds,
        nack \in BOOLEAN :
       /\ module = [buffer |-> p.data,
                    buffer_remaining |-> p.data_length,
                    buffer_length |-> p.data_length,
                    status |-> IF p.data_length > 0 THEN "STATUS_BUSY"
                               ELSE "STATUS_OK",
                    transfer_direction |-> "I2C_TRANSFER_WRITE",
                    nack_on_address |-> nack,
                    registered_callback |-> {},
                    enabled_callback |-> en,
                    callbacks |-> [k \in Kinds |-> NULL]]
       /\ hw = [INTFLAG |-> {},
                INTENSET |-> IF p.data_length > 0 THEN {AMATCH, DRDY, PREC}
                             ELSE IF "WRITE_REQUEST" \in en THEN {AMATCH}
                             ELSE {}]
  /\ mem = [a \in Addr |-> 0]
  /\ fault = FALSE
  /\ last = [op |-> "init", ret |-> "none", arg |-> "none", log |-> <<>>]
  /\ env = EnvTable

TableRegister ==
  \E k \in TableKinds, h \in TableHandlers :
    Commit(i2c_slave_register_callback(Cur, h, k),
           "register_callback", "none", [kind |-> k, fn |-> h])

TableUnregister ==
  \E k \in TableKinds :
    Commit(i2c_slave_unregister_callback(Cur, k),
           "unregister_callback", "none", [kind |-> k])

NextTable == TableRegister \/ TableUnregister

SpecTable == InitTable /\ [][NextTable]_vars

\* ------------------------------------------- the TCC callback dispatcher
\* (tcc_callback.c).  The session is struct tcc_module: the callback table
\* and the two masks; a callback kind is its index in _tcc_intflag, and the
\* masks and INTFLAG/INTENSET are sets of indices.
TCC_CALLBACK_N == 3
TccKinds == 0..(TCC_CALLBACK_N - 1)

tcc_register_callback(s, callback_func, callback_type) ==
  [s EXCEPT !.m.callback[callback_type] = callback_func,
            !.m.register_callback_mask = @ \cup {callback_type}]

tcc_unregister_callback(s, callback_type) ==
  [s EXCEPT !.m.callback[callback_type] = NULL,
            !.m.register_callback_mask = @ \ {callback_type}]

tcc_enable_callback(s, callback_type) ==
  [s EXCEPT !.m.enable_callback_mask = @ \cup {callback_type},
            !.hw.INTENSET = @ \cup {callback_type}]

tcc_disable_callback(s, callback_type) ==
  [s EXCEPT !.m.enable_callback_mask = @ \ {callback_type},
            !.hw.INTENSET = @ \ {callback_type}]

\* what the user code of a TCC callback may do
TccUserOps ==
  {[op |-> "none"]}
  \cup {[op |-> o, kind |-> k] :
          o \in {"unregister", "enable", "disable"}, k \in TccKinds}
  \cup {[op |-> "register", kind |-> k, fn |-> h] :
          k \in TccKinds, h \in Handlers}

TccUserRun(s, u) ==
  CASE u.op = "none" -> s
    [] u.op = "unregister" -> tcc_unregister_callback(s, u.kind)
    [] u.op = "register" -> tcc_register_callback(s, u.fn, u.kind)
    [] u.op = "enable" -> tcc_enable_callback(s, u.kind)
    [] u.op = "disable" -> tcc_disable_callback(s, u.kind)

\* (module->callback[i])(module): a call through an empty slot faults
TccInvoke(s, i) ==
  LET fn == s.m.callback[i] IN
  IF fn = NULL
  THEN {[s EXCEPT !.fault = TRUE,
                  !.log = Append(@, Call(s, i, NULL, "fault", s))]}
  ELSE {LET r == TccUserRun(s, u) IN
        [r EXCEPT !.log = Append(@, Call(s, i, fn, u.op, r))] :
          u \in TccUserOps}

\* one round of the for loop: the callback, then its flag is cleared
TccStep(s, mask, i) ==
  IF s.fault \/ i \notin mask THEN {s}
  ELSE {IF t.fault THEN t ELSE [t EXCEPT !.hw.INTFLAG = @ \ {i}] :
          t \in TccInvoke(s, i)}

RECURSIVE TccLoop(_, _, _)
TccLoop(S, mask, i) ==
  IF i >= TCC_CALLBACK_N THEN S
  ELSE TccLoop(UNION {TccStep(s, mask, i) : s \in S}, mask, i + 1)

_tcc_interrupt_handler(s) ==
  LET interrupt_and_callback_status_mask ==
        s.hw.INTFLAG \cap s.m.register_callback_mask
                     \cap s.m.enable_callback_mask
  IN TccLoop({s}, interrupt_and_callback_status_mask, 0)

EnvTcc == [kinds |-> {}, nkinds |-> 0, packets |-> {}, bytes |-> {}]

\* the TCC session after tcc_init
InitTcc ==
  /\ module = [callback |-> [k \in TccKinds |-> NULL],
               register_callback_mask |-> {},
               enable_callback_mask |-> {}]
  /\ hw = [INTFLAG |-> {}, INTENSET |-> {}]
  /\ mem = [a \in Addr |-> 0]
  /\ fault = FALSE
  /\ last = [op |-> "init", ret |-> "none", arg |-> "none", log |-> <<>>]
  /\ env = EnvTcc

TccRegisterCallback ==
  /\ ~ fault
  /\ \E k \in TccKinds, h \in Handlers :
       Commit(tcc_register_callback(Cur, h, k), "api", "STATUS_OK", "none")

TccUnregisterCallback ==
  /\ ~ fault
  /\ \E k \in TccKinds :
       Commit(tcc_unregister_callback(Cur, k), "api", "STATUS_OK", "none")

TccEnableCallback ==
  /\ ~ fault
  /\ \E k \in TccKinds :
       Commit(tcc_enable_callback(Cur, k), "api", "none", "none")

TccDisableCallback ==
  /\ ~ fault
  /\ \E k \in TccKinds :
       Commit(tcc_disable_callback(Cur, k), "api", "none", "none")

\* the timer raises the flags in flags and TCCn_Handler runs
TccInterrupt ==
  \E flags \in SUBSET TccKinds :
    LET entry == [Cur EXCEPT !.hw.INTFLAG = @ \cup flags] IN
    /\ ~ fault
    /\ entry.hw.INTFLAG \cap entry.hw.INTENSET # {}
    /\ \E s \in _tcc_interrupt_handler(entry) :
         Commit(s, "tcc_interrupt", "none", [flags |-> entry.hw.INTFLAG])

NextTcc ==
  \/ TccRegisterCallback
  \/ TccUnregisterCallback
  \/ TccEnableCallback
  \/ TccDisableCallback
  \/ TccInterrupt

SpecTcc == InitTcc /\ [][NextTcc]_vars

\* ------------------------------------------------------------- properties
ErrStatus == {"STATUS_ERR_OVERFLOW", "STATUS_ERR_IO"}

\* the branch of the handler that operation l ran: the pending condition of
\* highest priority
Branch(l) ==
  IF l.op # "interrupt" THEN "none"
  ELSE IF AMATCH \in l.arg.flags THEN AMATCH
  ELSE IF PREC \in l.arg.flags THEN PREC
  ELSE IF DRDY \in l.arg.flags THEN DRDY
  ELSE "none"

\* operation l had a job accepted, from the main program or in a callback
Restarted(l) ==
  \/ l.op \in {"read_packet_job", "write_packet_job"} /\ l.ret = "STATUS_OK"
  \/ \E i \in DOMAIN l.log : l.log[i].t = "CALL" /\ l.log[i].u = "job_ok"

\* operation l issued the release command of the early-termination path
Released(l) ==
  \E i \in DOMAIN l.log : l.log[i].t = "CMD" /\ l.log[i].k = "CMD2"

JobOps == {"read_packet_job", "write_packet_job"}

\* the callbacks the step to the primed state invoked, in order
CallsOf(log) == SelectSeq(log, LAMBDA e : e.t = "CALL")

\* the register writes of kind t the step made, in order
NotesOf(log, t) == SelectSeq(log, LAMBDA e : e.t = t)

\* some callback of the step had a job accepted
JobAcceptedIn(log) == \E i \in DOMAIN log : log[i].t = "CALL" /\ log[i].u = "job_ok"

\* the session fields a job call leaves alone
SameTable(a, b) ==
  /\ a.transfer_direction = b.transfer_direction
  /\ a.nack_on_address = b.nack_on_address
  /\ a.registered_callback = b.registered_callback
  /\ a.enabled_callback = b.enabled_callback
  /\ a.callbacks = b.callbacks

AllSources == {AMATCH, DRDY, PREC}

\* C1: a job call, from the main program or from inside a callback, returns
\* OK exactly when buffer_remaining is 0 at the call; otherwise it returns
\* Busy and changes neither the session nor the interrupt enables.
C1_JobAcceptedIffIdle ==
  [][/\ last'.op \in JobOps =>
          /\ (last'.ret = "STATUS_OK") <=> (module.buffer_remaining = 0)
          /\ module.buffer_remaining # 0 =>
                /\ last'.ret = "STATUS_BUSY"
                /\ module' = module /\ hw' = hw /\ mem' = mem
     /\ \A i \in DOMAIN last'.log :
          LET e == last'.log[i] IN
          (e.t = "CALL" /\ e.u \in {"job_ok", "job_busy"}) =>
             /\ (e.u = "job_ok") <=> (e.m.buffer_remaining = 0)
             /\ e.u = "job_busy" => (e.m2 = e.m /\ e.hw2 = e.hw)
    ]_vars

\* C1 witness: a job call was rejected while a job was in flight
C1_Witness ==
  /\ last.op = "read_packet_job" /\ last.ret = "STATUS_BUSY"
  /\ module.buffer_remaining > 0


\* C2: an accepted job call of either function makes the packet current
\* (cursor, both counters), sets status Busy, enables the three interrupt
\* sources and leaves direction, NACK policy and the callback table alone;
\* the two functions have the same effect.
C2_AcceptedJobEffect ==
  [][/\ (last'.op \in JobOps /\ last'.ret = "STATUS_OK") =>
          LET p == last'.arg IN
          /\ module'.buffer = p.data
          /\ module'.buffer_remaining = p.data_length
          /\ module'.buffer_length = p.data_length
          /\ module'.status = "STATUS_BUSY"
          /\ hw'.INTENSET = hw.INTENSET \cup AllSources
          /\ hw'.INTFLAG = hw.INTFLAG
          /\ SameTable(module', module)
          /\ mem' = mem
          /\ module' = i2c_slave_read_packet_job(Cur, p)[2].m
          /\ module' = i2c_slave_write_packet_job(Cur, p)[2].m
          /\ hw' = i2c_slave_read_packet_job(Cur, p)[2].hw
          /\ hw' = i2c_slave_write_packet_job(Cur, p)[2].hw
     /\ \A i \in DOMAIN last'.log :
          LET e == last'.log[i] IN
          (e.t = "CALL" /\ e.u = "job_ok") =>
             /\ e.m2.buffer_remaining = e.m2.buffer_length
             /\ \E p \in env.packets :
                  /\ e.m2.buffer = p.data
                  /\ e.m2.buffer_length = p.data_length
             /\ e.m2.status = "STATUS_BUSY"
             /\ e.hw2.INTENSET = e.hw.INTENSET \cup AllSources
             /\ SameTable(e.m2, e.m)
    ]_vars

\* C2 witness: a job was accepted at the second base address after the
\* cursor had moved, with an error status to overwrite
C2_Witness ==
  /\ last.op = "write_packet_job" /\ last.ret = "STATUS_OK"
  /\ last.arg.data = 1 /\ last.arg.data_length = 2
  /\ module.buffer = 1 /\ module.status = "STATUS_BUSY"

\* C3: buffer_remaining never exceeds buffer_length, in every state between
\* operations and at every callback the handler invokes.
C3_RemainingAtMostLength ==
  /\ module.buffer_remaining <= module.buffer_length
  /\ module.buffer_remaining >= 0
  /\ \A i \in DOMAIN last.log :
       LET e == last.log[i] IN
       e.t = "CALL" =>
          /\ e.m.buffer_remaining <= e.m.buffer_length
          /\ e.m2.buffer_remaining <= e.m2.buffer_length

\* C3 witness: a job is partly transferred
C3_Witness ==
  /\ last.op = "interrupt" /\ last.arg.flags = {DRDY}
  /\ 0 < module.buffer_remaining
  /\ module.buffer_remaining < module.buffer_length

\* C4 (as claimed): an error status keeps its value across every step that
\* is neither an address-match event nor an accepted job submission.
C4_ErrorKeptUntilRestart ==
  [][(module.status \in ErrStatus
      /\ Branch(last') # AMATCH /\ ~ Restarted(last'))
     => module'.status = module.status]_vars

\* C4 (amended): an error status is not reset by a stop event, which also
\* leaves the counters alone and invokes no callback; the status keeps its
\* value across every step that is not an address-match event, an accepted
\* job submission or a data-ready event taking the early-termination path.
C4_ErrorKeptAcrossStop ==
  [][module.status \in ErrStatus =>
       /\ Branch(last') = PREC =>
             /\ module'.status = module.status
             /\ module'.buffer_length = module.buffer_length
             /\ module'.buffer_remaining = module.buffer_remaining
             /\ CallsOf(last'.log) = <<>>
       /\ (Branch(last') # AMATCH /\ ~ Restarted(last') /\ ~ Released(last'))
             => module'.status = module.status
    ]_vars

\* C4 witness: a stop event was handled and the status is still an error,
\* with a job in flight
C4_Witness ==
  /\ Branch(last) = PREC
  /\ module.status = "STATUS_ERR_IO"
  /\ module.buffer_remaining > 0

\* the bytes the step wrote to the DATA register, in order
DataOut(l) ==
  LET ns == NotesOf(l.log, "DATA") IN [i \in DOMAIN ns |-> ns[i].k]

\* the answer operation l gave to the address: its first ACKACT write
AddressAnswer(l) ==
  LET ns == NotesOf(l.log, "ACKACT") IN
  IF Branch(l) = AMATCH /\ ns # <<>> THEN ns[1].k ELSE "none"

\* C5 (as claimed): a job the master has addressed without error and that
\* was ACKed is marked OK by the data-ready event that transfers its last
\* byte (here a job with one byte left right after the address phase).
C5_MarkedOkAtLastByte ==
  [][(/\ AddressAnswer(last) = "ACK"
      /\ last.arg.sr \cap ErrBits = {}
      /\ module.buffer_remaining = 1
      /\ Branch(last') = DRDY /\ "RXNACK" \notin last'.arg.sr)
     => (module'.buffer_remaining = 0 /\ module'.status = "STATUS_OK")]_vars

\* C5 (amended): while bytes remain and the master does not NACK, each
\* data-ready event transfers exactly one byte at the cursor (DATA to the
\* buffer for Write, the buffer to DATA for Read), advances the cursor by
\* one, decrements buffer_remaining by one and leaves status and
\* buffer_length alone; with buffer_remaining 0 a data-ready event moves no
\* byte and no cursor; the status becomes OK at the next stop event or, for
\* Read, at the next data-ready event.
C5_OneBytePerDataReady ==
  [][/\ (Branch(last') = DRDY /\ module.buffer_remaining > 0
         /\ "RXNACK" \notin last'.arg.sr) =>
          /\ module'.buffer = module.buffer + 1
          /\ module'.buffer_remaining = module.buffer_remaining - 1
          /\ module'.buffer_length = module.buffer_length
          /\ module'.status = module.status
          /\ CallsOf(last'.log) = <<>>
          /\ module.buffer \in Addr
          /\ module.transfer_direction = "I2C_TRANSFER_WRITE" =>
                /\ mem' = [mem EXCEPT ![module.buffer] = last'.arg.data]
                /\ DataOut(last') = <<>>
          /\ module.transfer_direction = "I2C_TRANSFER_READ" =>
                /\ mem' = mem
                /\ DataOut(last') = <<mem[module.buffer]>>
     /\ (Branch(last') = DRDY /\ module.buffer_remaining = 0) =>
          /\ mem' = mem
          /\ DataOut(last') = <<>>
          /\ ~ Restarted(last') =>
                (module'.buffer = module.buffer /\ module'.buffer_remaining = 0)
          /\ (module.transfer_direction = "I2C_TRANSFER_READ") =>
                module'.status = "STATUS_OK"
     /\ (Branch(last') = PREC /\ module.status = "STATUS_BUSY"
         /\ ~ Restarted(last')) =>
          module'.status = "STATUS_OK"
    ]_vars

\* C5 witness: the second and last byte of a Write job has been stored
C5_Witness ==
  /\ Branch(last) = DRDY
  /\ module.transfer_direction = "I2C_TRANSFER_WRITE"
  /\ module.buffer_length = 2 /\ module.buffer_remaining = 0
  /\ module.buffer = 3
  /\ mem[1] = 0 /\ mem[2] = 1
  /\ module.status = "STATUS_BUSY"

\* C6: a data-ready event with buffer_remaining 0 moves no byte and no
\* cursor and zeroes both counters; for Write it sets ErrorOverflow and
\* invokes ERROR once exactly when ERROR is registered and enabled; for Read
\* it sets OK, disables the data-ready source and invokes nothing; in both
\* cases it issues NACK and then the release command.
C6_DataReadyOnEmptyBuffer ==
  [][(Branch(last') = DRDY /\ module.buffer_remaining = 0) =>
       LET calls == CallsOf(last'.log)
           armed == "ERROR" \in (module.registered_callback
                                   \cap module.enabled_callback)
       IN
       /\ mem' = mem
       /\ DataOut(last') = <<>>
       /\ SelectSeq(last'.log, LAMBDA e : e.t # "CALL")
            = <<[t |-> "ACKACT", k |-> "NACK"], [t |-> "CMD", k |-> "CMD2"]>>
       /\ ~ fault'
       /\ module.transfer_direction = "I2C_TRANSFER_WRITE" =>
             /\ Len(calls) = (IF armed THEN 1 ELSE 0)
             /\ \A i \in DOMAIN calls :
                  /\ calls[i].k = "ERROR"
                  /\ calls[i].fn = module.callbacks["ERROR"]
                  /\ calls[i].fn # NULL
                  /\ calls[i].m.status = "STATUS_ERR_OVERFLOW"
                  /\ calls[i].m.buffer_remaining = 0
                  /\ calls[i].m.buffer_length = 0
                  /\ calls[i].m.buffer = module.buffer
                  /\ last'.log[Len(last'.log)] = calls[i]
             /\ ~ Restarted(last') =>
                  /\ module'.status = "STATUS_ERR_OVERFLOW"
                  /\ module'.buffer_remaining = 0
                  /\ module'.buffer_length = 0
                  /\ module'.buffer = module.buffer
                  /\ hw'.INTENSET = hw.INTENSET
       /\ module.transfer_direction = "I2C_TRANSFER_READ" =>
             /\ calls = <<>>
             /\ module'.status = "STATUS_OK"
             /\ module'.buffer_remaining = 0
             /\ module'.buffer_length = 0
             /\ module'.buffer = module.buffer
             /\ hw'.INTENSET = hw.INTENSET \ {DRDY}
    ]_vars

\* C6 witness: a byte arrived for a full Write buffer and ERROR was invoked
C6_Witness ==
  /\ Branch(last) = DRDY
  /\ module.status = "STATUS_ERR_OVERFLOW"
  /\ last.arg.data = 1
  /\ module.buffer = 1 /\ mem[1] = 0
  /\ Len(CallsOf(last.log)) = 1

\* the completion callback of a transfer in direction dir
CompletionOf(dir) ==
  IF dir = "I2C_TRANSFER_WRITE" THEN "READ_COMPLETE" ELSE "WRITE_COMPLETE"

\* kind k is registered and enabled in session m
Armed(m, k) == k \in (m.registered_callback \cap m.enabled_callback)

\* C7: a stop event with a status that is no error sets status OK, zeroes
\* both counters and invokes at most one callback, the completion callback
\* of the current direction, exactly when that is registered and enabled; a
\* stop event with an error status changes neither status nor counters and
\* invokes nothing.
C7_StopEvent ==
  [][Branch(last') = PREC =>
       LET calls == CallsOf(last'.log)
           kind == CompletionOf(module.transfer_direction)
       IN
       /\ module.status \notin ErrStatus =>
             /\ Len(calls) = (IF Armed(module, kind) THEN 1 ELSE 0)
             /\ \A i \in DOMAIN calls :
                  /\ calls[i].k = kind
                  /\ calls[i].fn # NULL
                  /\ calls[i].m.status = "STATUS_OK"
                  /\ calls[i].m.buffer_length = 0
                  /\ calls[i].m.buffer_remaining = 0
             /\ ~ Restarted(last') =>
                  /\ module'.status = "STATUS_OK"
                  /\ module'.buffer_length = 0
                  /\ module'.buffer_remaining = 0
       /\ module.status \in ErrStatus =>
             /\ calls = <<>>
             /\ module'.status = module.status
             /\ module'.buffer_length = module.buffer_length
             /\ module'.buffer_remaining = module.buffer_remaining
    ]_vars

\* C7 witness: a stop event ended a Read transfer with bytes unsent and
\* WRITE_COMPLETE was invoked
C7_Witness ==
  /\ Branch(last) = PREC
  /\ module.transfer_direction = "I2C_TRANSFER_READ"
  /\ Len(CallsOf(last.log)) = 1
  /\ last.log[1].k = "WRITE_COMPLETE"
  /\ last.log[1].m.buffer_remaining = 0
  /\ ~ Restarted(last)
  /\ module.status = "STATUS_OK"

\* the NACK policy when the handler decides on the address: the value left
\* by the callbacks that ran before the decision
NackAtDecision(m, l) ==
  LET before == SelectSeq(CallsOf(l.log),
                          LAMBDA e : e.k \notin {"READ_REQUEST", "WRITE_REQUEST"})
  IN IF before = <<>> THEN m.nack_on_address
     ELSE before[Len(before)].m2.nack_on_address

\* buffer_length when the request callback of operation l has returned, or
\* where it would have run; m is the session after the operation
LengthAfterRequest(m, l) ==
  LET req == SelectSeq(CallsOf(l.log),
                       LAMBDA e : e.k \in {"READ_REQUEST", "WRITE_REQUEST"})
  IN IF req = <<>> THEN m.buffer_length ELSE req[Len(req)].m2.buffer_length

\* C8: an address match with the NACK policy off is ACKed exactly when
\* buffer_length is not 0 once the request callback has returned, and NACKed
\* otherwise; the answer is committed by the address command; with
\* buffer_length 0 no data-ready event transfers a byte.
C8_AckIffBuffer ==
  [][/\ (Branch(last') = AMATCH /\ ~ fault'
         /\ ~ NackAtDecision(module, last')) =>
          /\ (AddressAnswer(last') = "ACK")
               <=> (LengthAfterRequest(module', last') # 0)
          /\ (AddressAnswer(last') = "NACK")
               <=> (LengthAfterRequest(module', last') = 0)
          /\ SelectSeq(last'.log, LAMBDA e : e.t # "CALL")
               = <<[t |-> "ACKACT", k |-> AddressAnswer(last')],
                   [t |-> "CMD", k |-> "CMD3"],
                   [t |-> "ACKACT", k |-> "ACK"]>>
     /\ (Branch(last') = DRDY /\ module.buffer_length = 0) =>
          /\ mem' = mem
          /\ DataOut(last') = <<>>
          /\ ~ Restarted(last') =>
                /\ module'.buffer = module.buffer
                /\ module'.buffer_remaining = 0
                /\ module'.buffer_length = 0
    ]_vars

\* C8 witness: no buffer was set up at the address match, the request
\* callback submitted a job and the address was ACKed
C8_Witness ==
  /\ Branch(last) = AMATCH
  /\ AddressAnswer(last) = "ACK"
  /\ Len(last.log) = 4
  /\ last.log[1].t = "CALL" /\ last.log[1].k = "READ_REQUEST"
  /\ last.log[1].m.buffer_length = 0
  /\ last.log[1].u = "job_ok"

\* C9: an address match with buffer_length # buffer_remaining first sets
\* status OK and zeroes both counters and then invokes the completion
\* callback of the previous direction once, exactly when it is registered
\* and enabled, before the bus-error check, the new direction and any
\* request callback; with equal counters no completion callback is invoked
\* and the counters are left alone.
C9_RepeatedStart ==
  [][Branch(last') = AMATCH =>
       LET calls == CallsOf(last'.log)
           done == SelectSeq(calls, LAMBDA e :
                               e.k \in {"READ_COMPLETE", "WRITE_COMPLETE"})
           kind == CompletionOf(module.transfer_direction)
       IN
       /\ module.buffer_length # module.buffer_remaining =>
             /\ Len(done) = (IF Armed(module, kind) THEN 1 ELSE 0)
             /\ \A i \in DOMAIN done :
                  /\ done[i] = last'.log[1]
                  /\ done[i].k = kind
                  /\ done[i].fn # NULL
                  /\ done[i].m.status = "STATUS_OK"
                  /\ done[i].m.buffer_length = 0
                  /\ done[i].m.buffer_remaining = 0
                  /\ done[i].m.transfer_direction = module.transfer_direction
             /\ (~ Restarted(last') /\ ~ fault') =>
                  /\ module'.buffer_length = 0
                  /\ module'.buffer_remaining = 0
                  /\ module'.status =
                       (IF last'.arg.sr \cap ErrBits # {}
                        THEN "STATUS_ERR_IO" ELSE "STATUS_OK")
       /\ module.buffer_length = module.buffer_remaining =>
             /\ done = <<>>
             /\ ~ Restarted(last') =>
                  /\ module'.buffer_length = module.buffer_length
                  /\ module'.buffer_remaining = module.buffer_remaining
    ]_vars

\* C9 witness: a repeated start after a partly received Write job invoked
\* READ_COMPLETE while the hardware reported a bus error
C9_Witness ==
  /\ Branch(last) = AMATCH
  /\ last.arg.sr \cap ErrBits # {}
  /\ Len(last.log) > 0
  /\ last.log[1].t = "CALL" /\ last.log[1].k = "READ_COMPLETE"
  /\ last.log[1].m.status = "STATUS_OK"
  /\ module.status = "STATUS_ERR_IO"

\* C10: after a stop event, or a data-ready event that took the
\* early-termination path, no job is in flight (unless a callback of that
\* event submitted a new one), so the next job call is accepted.
C10_IdleAfterTransactionEnd ==
  (/\ Branch(last) = PREC \/ (Branch(last) = DRDY /\ Released(last))
   /\ ~ Restarted(last))
  => module.buffer_remaining = 0

CompleteKinds == {"READ_COMPLETE", "WRITE_COMPLETE"}
RequestKinds == {"READ_REQUEST", "WRITE_REQUEST"}

\* the position in log of the first entry that satisfies Test, or 0
FirstIndex(log, Test(_)) ==
  IF \E i \in DOMAIN log : Test(log[i])
  THEN CHOOSE i \in DOMAIN log :
         Test(log[i]) /\ \A j \in 1..(i - 1) : ~ Test(log[j])
  ELSE 0

\* C11: an address-match event at which STATUS reports bus error, collision
\* or low-timeout sets status ErrorIO and calls ERROR_LAST_TRANSFER exactly
\* once when the callback was registered and enabled as the handler was
\* entered, and not otherwise; the call sees status ErrorIO, comes after the
\* repeated-start completion callback, and comes before the direction is
\* set, before any request callback and before the address is answered.
\* Without such a report ERROR_LAST_TRANSFER is not called.
C11_BusError ==
  [][Branch(last') = AMATCH =>
       LET log == last'.log
           IsElt(e) == e.t = "CALL" /\ e.k = "ERROR_LAST_TRANSFER"
           IsLater(e) == e.t # "CALL" \/ e.k \in RequestKinds
           IsDone(e) == e.t = "CALL" /\ e.k \in CompleteKinds
           elt == SelectSeq(log, IsElt)
           at == FirstIndex(log, IsElt)
           reached == \A i \in DOMAIN log :
                         IsDone(log[i]) => log[i].u # "fault"
       IN
       /\ (last'.arg.sr \cap ErrBits # {} /\ reached) =>
             /\ Len(elt) = (IF Armed(module, "ERROR_LAST_TRANSFER")
                             THEN 1 ELSE 0)
             /\ \A i \in DOMAIN log : IsElt(log[i]) =>
                  /\ log[i].m.status = "STATUS_ERR_IO"
                  /\ log[i].m.transfer_direction = module.transfer_direction
                  /\ i = 1 => log[i].fn # NULL
                  /\ \A j \in DOMAIN log :
                       /\ IsDone(log[j]) => j < i
                       /\ IsLater(log[j]) => j > i
             /\ (~ \E i \in DOMAIN log :
                      /\ log[i].t = "CALL" /\ log[i].u = "job_ok"
                      /\ ~ IsDone(log[i]))
                  => module'.status = "STATUS_ERR_IO"
       /\ last'.arg.sr \cap ErrBits = {} => elt = <<>>
    ]_vars

\* C11 witness: a repeated start with a collision report: READ_COMPLETE ran,
\* then ERROR_LAST_TRANSFER with status ErrorIO, then the address was answered
C11_Witness ==
  /\ Branch(last) = AMATCH
  /\ "COLL" \in last.arg.sr
  /\ Len(last.log) = 5
  /\ last.log[1].t = "CALL" /\ last.log[1].k = "READ_COMPLETE"
  /\ last.log[2].t = "CALL" /\ last.log[2].k = "ERROR_LAST_TRANSFER"
  /\ last.log[2].m.status = "STATUS_ERR_IO"
  /\ last.log[3].t = "ACKACT"
  /\ module.status = "STATUS_ERR_IO"

\* C12: every callback the handler calls has its bit set in both masks at
\* the moment of the call, and at an address match with an error report that
\* follows a completion callback, ERROR_LAST_TRANSFER is called when its bit
\* is set in both masks as that callback returns.
C12_CalledIffBothMasks ==
  [][\A i \in DOMAIN last'.log :
       LET e == last'.log[i] IN
       e.t = "CALL" =>
          /\ e.k \in e.m.registered_callback
          /\ e.k \in e.m.enabled_callback
          /\ (/\ Branch(last') = AMATCH
              /\ last'.arg.sr \cap ErrBits # {}
              /\ e.k \in CompleteKinds /\ e.u # "fault"
              /\ Armed(e.m2, "ERROR_LAST_TRANSFER"))
             => /\ i + 1 \in DOMAIN last'.log
                /\ last'.log[i + 1].t = "CALL"
                /\ last'.log[i + 1].k = "ERROR_LAST_TRANSFER"
    ]_vars

\* C18: the handler never calls through an empty callback slot.
C18_NeverCallsEmptySlot ==
  /\ ~ fault
  /\ \A i \in DOMAIN last.log :
       last.log[i].t = "CALL" => last.log[i].fn # NULL

\* C13: an address-match event handled with nack_on_address set is NACKed
\* whatever the counters are, leaves transfer_direction alone and calls no
\* request callback; with the flag clear the direction is taken from
\* STATUS.DIR; the two policy calls, from the main program or from a
\* callback, set the flag to their value and change nothing else.
C13_NackOnAddress ==
  [][/\ (Branch(last') = AMATCH /\ ~ fault') =>
          /\ NackAtDecision(module, last') =>
                /\ AddressAnswer(last') = "NACK"
                /\ SelectSeq(last'.log, LAMBDA e : e.t # "CALL")
                     = <<[t |-> "ACKACT", k |-> "NACK"],
                         [t |-> "CMD", k |-> "CMD3"],
                         [t |-> "ACKACT", k |-> "ACK"]>>
                /\ module'.transfer_direction = module.transfer_direction
                /\ \A i \in DOMAIN last'.log :
                     last'.log[i].t = "CALL" =>
                        last'.log[i].k \notin RequestKinds
          /\ ~ NackAtDecision(module, last') =>
                module'.transfer_direction =
                   (IF "DIR" \in last'.arg.sr THEN "I2C_TRANSFER_READ"
                    ELSE "I2C_TRANSFER_WRITE")
     /\ EnableNackOnAddress =>
          /\ module' = [module EXCEPT !.nack_on_address = TRUE]
          /\ hw' = hw /\ mem' = mem /\ fault' = fault
     /\ DisableNackOnAddress =>
          /\ module' = [module EXCEPT !.nack_on_address = FALSE]
          /\ hw' = hw /\ mem' = mem /\ fault' = fault
     /\ \A i \in DOMAIN last'.log :
          LET e == last'.log[i] IN
          (e.t = "CALL" /\ e.u \in {"nack_on", "nack_off"}) =>
             /\ e.m2 = [e.m EXCEPT !.nack_on_address = (e.u = "nack_on")]
             /\ e.hw2 = e.hw
    ]_vars

\* C13 witness: a read address with a job set up and READ_REQUEST armed was
\* NACKed by policy; the direction is still Write
C13_Witness ==
  /\ Branch(last) = AMATCH
  /\ "DIR" \in last.arg.sr
  /\ module.nack_on_address
  /\ module.buffer_remaining > 0
  /\ Armed(module, "READ_REQUEST")
  /\ AddressAnswer(last) = "NACK"
  /\ CallsOf(last.log) = <<>>
  /\ module.transfer_direction = "I2C_TRANSFER_WRITE"

\* C14: register_callback(session, handler, kind) stores handler in kind's
\* slot and sets kind's bit in registered_callback and changes nothing else:
\* not enabled_callback, no other slot or bit, no job or session field, no
\* interrupt enable; after two consecutive registrations for the same kind
\* the bit is set and the slot holds the handler of the second.
C14_RegisterCallback ==
  [][last'.op = "register_callback" =>
       LET k == last'.arg.kind IN
       /\ module'.callbacks[k] = last'.arg.fn
       /\ k \in module'.registered_callback
       /\ module'.registered_callback \ {k} = module.registered_callback \ {k}
       /\ \A j \in Kinds \ {k} : module'.callbacks[j] = module.callbacks[j]
       /\ module'.enabled_callback = module.enabled_callback
       /\ module'.buffer = module.buffer
       /\ module'.buffer_remaining = module.buffer_remaining
       /\ module'.buffer_length = module.buffer_length
       /\ module'.status = module.status
       /\ module'.transfer_direction = module.transfer_direction
       /\ module'.nack_on_address = module.nack_on_address
       /\ hw' = hw /\ mem' = mem /\ fault' = fault
       /\ (last.op = "register_callback" /\ last.arg.kind = k) =>
             /\ module'.registered_callback = module.registered_callback
             /\ module'.callbacks = [module.callbacks EXCEPT ![k] = last'.arg.fn]
    ]_vars

\* C14 witness: a second registration for READ_COMPLETE replaced handler H1
\* by H2 while the callback is disabled and a job is in flight
C14_Witness ==
  /\ last.op = "register_callback"
  /\ last.arg = [kind |-> "READ_COMPLETE", fn |-> "H2"]
  /\ module.callbacks["READ_COMPLETE"] = "H2"
  /\ module.callbacks["ERROR"] = "H1"
  /\ module.registered_callback = {"READ_COMPLETE", "ERROR"}
  /\ "READ_COMPLETE" \notin module.enabled_callback
  /\ module.buffer_remaining > 0

\* C15: unregister_callback(session, kind) empties kind's slot, clears
\* kind's registered bit and changes nothing else, also when kind was never
\* registered; a second call for the same kind changes nothing: the state
\* after two calls is the state after one.
C15_UnregisterIdempotent ==
  [][last'.op = "unregister_callback" =>
       LET k == last'.arg.kind
           once == i2c_slave_unregister_callback(Cur, k)
           twice == i2c_slave_unregister_callback(once, k)
       IN
       /\ module'.callbacks = [module.callbacks EXCEPT ![k] = NULL]
       /\ module'.registered_callback = module.registered_callback \ {k}
       /\ module' = [module EXCEPT !.callbacks[k] = NULL,
                                   !.registered_callback = @ \ {k}]
       /\ hw' = hw /\ mem' = mem /\ fault' = fault
       /\ twice = once
       /\ (last.op = "unregister_callback" /\ last.arg.kind = k) =>
             (module' = module /\ hw' = hw)
    ]_vars

\* C15 witness: ERROR was unregistered with its slot already empty, while
\* it is enabled and another kind stays registered
C15_Witness ==
  /\ last.op = "unregister_callback"
  /\ last.arg.kind = "ERROR"
  /\ module.callbacks["ERROR"] = NULL
  /\ module.callbacks["READ_COMPLETE"] = "H2"
  /\ module.registered_callback = {"READ_COMPLETE"}
  /\ "ERROR" \in module.enabled_callback

\* C16: in every state in which a job is in flight the data-ready and stop
\* interrupt sources are enabled.
C16_JobInFlightCanProgress ==
  module.buffer_remaining > 0 => {DRDY, PREC} \subseteq hw.INTENSET

\* operation l called a completion callback
Completed(l) ==
  \E i \in DOMAIN l.log :
    l.log[i].t = "CALL" /\ l.log[i].k \in CompleteKinds

\* C17: when an operation has called a completion callback and no job was
\* accepted since, the next operation calls no completion callback.
C17_OneCompletionPerJob ==
  [][(Completed(last) /\ ~ Restarted(last)) => ~ Completed(last')]_vars

\* C19: a handler invocation processes exactly one pending condition, the
\* first of address match, stop, data ready: it clears that condition and
\* leaves the others pending; under an address match no interrupt source is
\* disabled, no byte is moved and no release command is issued; under a stop
\* no byte is moved and nothing is written to CTRLB or DATA; with none of
\* the three pending nothing changes and no callback is called.
C19_OneConditionPerInvocation ==
  [][last'.op = "interrupt" =>
       LET F == last'.arg.flags
           B == Branch(last')
           writes == SelectSeq(last'.log, LAMBDA e : e.t # "CALL")
       IN
       /\ (B # "none" /\ ~ fault') => F \ hw'.INTFLAG = {B}
       /\ hw'.INTFLAG \subseteq F
       /\ B = AMATCH =>
             /\ hw.INTENSET \subseteq hw'.INTENSET
             /\ mem' = mem
             /\ \A i \in DOMAIN writes :
                  \/ writes[i].t = "ACKACT"
                  \/ (writes[i].t = "CMD" /\ writes[i].k = "CMD3")
             /\ ~ Restarted(last') => module'.buffer = module.buffer
             /\ ~ fault' => Len(writes) = 3
       /\ B = PREC =>
             /\ writes = <<>>
             /\ mem' = mem
             /\ module'.transfer_direction = module.transfer_direction
             /\ hw'.INTENSET \cap {PREC, DRDY} # {} => Restarted(last')
             /\ ~ Restarted(last') => module'.buffer = module.buffer
       /\ B = DRDY =>
             /\ module'.transfer_direction = module.transfer_direction
             /\ \A i \in DOMAIN writes :
                  ~ (writes[i].t = "CMD" /\ writes[i].k = "CMD3")
             /\ PREC \in hw.INTENSET => PREC \in hw'.INTENSET
       /\ B = "none" =>
             /\ module' = module /\ hw' = hw /\ mem' = mem
             /\ fault' = fault
             /\ last'.log = <<>>
    ]_vars

\* C19 witness: the handler ran with all three conditions pending and a job
\* in flight, answered the address and left stop and data ready pending
C19_Witness ==
  /\ Branch(last) = AMATCH
  /\ last.arg.flags = IntBits
  /\ hw.INTFLAG = {PREC, DRDY}
  /\ {PREC, DRDY} \subseteq hw.INTENSET
  /\ module.buffer_remaining = module.buffer_length
  /\ module.buffer_remaining > 0

\* the data-ready event of operation l took the one-byte path
Transferred(m, l) ==
  /\ Branch(l) = DRDY
  /\ m.buffer_remaining > 0
  /\ ~ (/\ m.transfer_direction = "I2C_TRANSFER_READ"
        /\ m.buffer_length > m.buffer_remaining
        /\ "RXNACK" \in l.arg.sr)

\* C20: a data-ready event takes the early-termination path (NACK and the
\* release command, both counters zeroed) when buffer_remaining is 0 or the
\* master NACKed a byte of a Read job, and the one-byte path otherwise, and
\* always changes the state; the one-byte path moves the cursor by one,
\* takes one from buffer_remaining, stores DATA at the cursor for Write and
\* writes the byte at the cursor to DATA for Read, calls no callback and
\* leaves status, buffer_length, direction, the callback table, the masks,
\* the NACK policy and the interrupt enables alone.
C20_DataReadyPaths ==
  [][Branch(last') = DRDY =>
       LET writes == SelectSeq(last'.log, LAMBDA e : e.t # "CALL") IN
       /\ Released(last') <=> ~ Transferred(module, last')
       /\ <<module', mem', last'.log>> # <<module, mem, <<>> >>
       /\ DRDY \notin hw'.INTFLAG
       /\ Released(last') =>
             /\ writes = <<[t |-> "ACKACT", k |-> "NACK"],
                           [t |-> "CMD", k |-> "CMD2"]>>
             /\ mem' = mem
             /\ ~ Restarted(last') =>
                  (module'.buffer_remaining = 0 /\ module'.buffer_length = 0)
       /\ Transferred(module, last') =>
             /\ last'.log = writes
             /\ module' = [module EXCEPT !.buffer = @ + 1,
                                         !.buffer_remaining = @ - 1]
             /\ hw'.INTENSET = hw.INTENSET
             /\ module.buffer \in Addr
             /\ module.transfer_direction = "I2C_TRANSFER_WRITE" =>
                   /\ mem' = [mem EXCEPT ![module.buffer] = last'.arg.data]
                   /\ writes = <<>>
             /\ module.transfer_direction = "I2C_TRANSFER_READ" =>
                   /\ mem' = mem
                   /\ writes = <<[t |-> "DATA", k |-> mem[module.buffer]]>>
    ]_vars

\* C20 witness: the slave has sent the first byte of a Read job whose
\* buffer holds bytes received before, the master ACKed
C20_Witness ==
  /\ Branch(last) = DRDY
  /\ module.transfer_direction = "I2C_TRANSFER_READ"
  /\ last.log = <<[t |-> "DATA", k |-> 1]>>
  /\ module.buffer_remaining = 1 /\ module.buffer_length = 2
  /\ module.status = "STATUS_BUSY"

\* the transfer of a Read job was ended by the handler: counters zeroed,
\* status OK, data-ready source disabled, nothing sent, no callback
ReadEnded(l, m2, h, h2) ==
  /\ SelectSeq(l.log, LAMBDA e : e.t # "CALL")
       = <<[t |-> "ACKACT", k |-> "NACK"], [t |-> "CMD", k |-> "CMD2"]>>
  /\ CallsOf(l.log) = <<>>
  /\ m2.buffer_remaining = 0 /\ m2.buffer_length = 0
  /\ m2.status = "STATUS_OK"
  /\ h2.INTENSET = h.INTENSET \ {DRDY}

\* C21 (as claimed): in direction Read with buffer_remaining > 0, a
\* data-ready event at which STATUS reports the master's NACK ends the
\* transfer and sends no byte.
C21_NackEndsRead ==
  [][(/\ Branch(last') = DRDY
      /\ module.transfer_direction = "I2C_TRANSFER_READ"
      /\ module.buffer_remaining > 0
      /\ "RXNACK" \in last'.arg.sr)
     => (ReadEnded(last', module', hw, hw') /\ mem' = mem)]_vars

\* C21 (amended): in direction Read with buffer_remaining > 0, a data-ready
\* event at which STATUS reports the master's NACK ends the transfer and
\* sends no byte when a byte of the job has been sent before
\* (buffer_length > buffer_remaining); when none has been sent
\* (buffer_length = buffer_remaining) the NACK report is ignored and the
\* first byte of the buffer is sent.
C21_NackAfterFirstByteEndsRead ==
  [][(/\ Branch(last') = DRDY
      /\ module.transfer_direction = "I2C_TRANSFER_READ"
      /\ module.buffer_remaining > 0
      /\ "RXNACK" \in last'.arg.sr)
     => /\ mem' = mem
        /\ module.buffer_length > module.buffer_remaining =>
              /\ ReadEnded(last', module', hw, hw')
              /\ module'.buffer = module.buffer
              /\ SameTable(module', module)
        /\ module.buffer_length = module.buffer_remaining =>
              /\ last'.log = <<[t |-> "DATA", k |-> mem[module.buffer]]>>
              /\ module' = [module EXCEPT !.buffer = @ + 1,
                                          !.buffer_remaining = @ - 1]
              /\ hw'.INTENSET = hw.INTENSET
    ]_vars

\* C21 witness: the master NACKed after the first of two bytes and the
\* handler ended the transfer with the second byte unsent
C21_Witness ==
  /\ Branch(last) = DRDY
  /\ "RXNACK" \in last.arg.sr
  /\ module.transfer_direction = "I2C_TRANSFER_READ"
  /\ module.buffer = 2
  /\ module.buffer_remaining = 0 /\ module.buffer_length = 0
  /\ module.status = "STATUS_OK"
  /\ DRDY \notin hw.INTENSET /\ PREC \in hw.INTENSET
  /\ Released(last)

\* the interrupt sources a stop event leaves enabled in session m
AfterStop(m, h) ==
  h.INTENSET \ ({PREC, DRDY}
                 \cup (IF m.enabled_callback \cap RequestKinds = {}
                       THEN {AMATCH} ELSE {}))

\* C22: every stop event, whatever the status, clears the stop flag and
\* disables the stop and data-ready sources, and disables the address-match
\* source exactly when neither READ_REQUEST nor WRITE_REQUEST is enabled;
\* this is done before the completion callback runs, and only a job that
\* callback has accepted enables sources again.
C22_StopDisablesSources ==
  [][Branch(last') = PREC =>
       /\ PREC \notin hw'.INTFLAG
       /\ \A i \in DOMAIN last'.log :
            LET e == last'.log[i] IN
            e.t = "CALL" =>
               /\ e.hw.INTENSET = AfterStop(module, hw)
               /\ PREC \notin e.hw.INTFLAG
       /\ ~ Restarted(last') => hw'.INTENSET = AfterStop(module, hw)
       /\ Restarted(last') =>
             hw'.INTENSET = AfterStop(module, hw) \cup AllSources
    ]_vars

\* C22 witness: a stop event with status ErrorIO and WRITE_REQUEST enabled
\* left only the address-match source enabled
C22_Witness ==
  /\ Branch(last) = PREC
  /\ module.status = "STATUS_ERR_IO"
  /\ "WRITE_REQUEST" \in module.enabled_callback
  /\ hw.INTENSET = {AMATCH}
  /\ hw.INTFLAG = {}

\* C23: one run of the TCC handler calls, in ascending index order and
\* each once, exactly the callbacks whose flag is pending and whose bit is
\* set in both masks as the handler is entered, every call going through a
\* slot that is not empty, and clears exactly the flags of the callbacks it
\* called.
C23_TccDispatch ==
  [][last'.op = "tcc_interrupt" =>
       LET F == last'.arg.flags
           calls == CallsOf(last'.log)
           called == {calls[i].k : i \in DOMAIN calls}
       IN
       /\ \A i \in DOMAIN calls :
            /\ calls[i].fn # NULL
            /\ calls[i].k \in F
       /\ \A i, j \in DOMAIN calls : i < j => calls[i].k < calls[j].k
       /\ called = F \cap module.register_callback_mask
                      \cap module.enable_callback_mask
       /\ hw'.INTFLAG = F \ called
       /\ ~ fault'
    ]_vars

====
